---- MODULE Spec2Model ----
(***************************************************************************)
(* Decision core of the polymarket agent: the 3-model consensus of         *)
(* AIAnalyzer.consensus_analysis; the trade signal validator, the position *)
(* sizing, place_market_order, execute_signal, the lazy initialisation and *)
(* the exchange reads of TradeExecutor; KellyCriterion.kelly_bet_size; the *)
(* agent state, background loop, cycle, decision history and control       *)
(* endpoints of app.py; and the order history of GCSStorage.               *)
(*                                                                         *)
(* Numbers.  The program computes on Python floats.  The model computes    *)
(* exactly: on integers in fixed units, chosen so that the divisions of    *)
(* the consensus code are exact on the modelled inputs, and on fractions   *)
(* n/d in the sizing formulas:                                             *)
(*   probabilities and edges : Unit-ths (1.0 = Unit = 600), so that a      *)
(*       percentage divided by 100 and a sum divided by 1, 2 or 3          *)
(*       estimates are integers;                                           *)
(*   confidences             : ConfUnit-ths (1 point = 6);                 *)
(*   money                   : cents.                                      *)
(* Float rounding error is therefore not modelled: 0.55 - 0.5 is exactly   *)
(* 0.05 here, and a hair above 0.05 in the program.                        *)
(***************************************************************************)
EXTENDS Integers, Sequences, FiniteSets, TLC

VARIABLES
    ca_pc,          \* consensus_analysis: "loop" | "done" | "raised" ("idle": no call)
    ca_model,       \* index into CONSENSUS_MODELS of the model queried next
    current_odds,   \* argument current_odds, in Unit-ths
    results,        \* local list `results`
    errors,         \* local list `errors`
    analysis,       \* the returned dict (NoValue while the call runs)
    ca_heard,       \* record of this call: what each chat call answered
    ca_earlier,     \* record of the calls before it: inputs and returned dict
    ex_pc,          \* execute_signal and the calls under it: the statement reached
    signal,         \* the arguments of execute_signal
    validation,     \* (should_trade, reason) of validate_trade_signal
    size,           \* local `size` of execute_signal, in cents
    place_args,     \* the arguments of place_market_order
    order_id,       \* what place_market_order returns
    calls,          \* the calls execute_signal has made so far, in order
    posted,         \* the orders handed to client.create_and_post_order
    trade_result,   \* the dict execute_signal returns
    initialized,    \* TradeExecutor._initialized
    client,         \* TradeExecutor.client
    api_creds,      \* TradeExecutor._api_creds
    operation,      \* the TradeExecutor method the caller has called
    returned,       \* what get_orderbook, get_open_orders or get_positions returned
    k_pc,           \* kelly_bet_size: "call" | "done"
    kelly,          \* the KellyCriterion object: its four attributes
    kelly_given,    \* the arguments KellyCriterion(...) was built with, and the environment
    kelly_args,     \* the arguments of kelly_bet_size
    kelly_result,   \* what kelly_bet_size returned, or the exception it raised
    ps_pc,          \* calculate_position_size called on its own: "call" | "done"
    ps_args,        \* its arguments edge, confidence, bankroll
    ps_result,      \* what it returned, in cents
    running,        \* app.py: state.running
    auto_trade,     \* state.auto_trade
    executor,       \* whether get_executor() gave app.py an executor
    threads,        \* how many threads stand at each position of app.py
    last_start,     \* what the last start_agent to finish saw and did
    toggle_called,  \* whether /api/agent/auto-trade was ever requested
    last_execute,   \* the last call of executor.execute_signal by a cycle
    order_placed,   \* whether any of those calls has placed an order
    last_market,    \* the last market a cycle has gone through: its tokens and what was done
    decisions,      \* state.decisions: the decisions by the number of their market
    completed,      \* how many markets have been analysed without exception so far
    cycle,          \* each run of run_agent_cycle: the statement reached and its locals
    gcs_file,       \* orders.json in the bucket: whether it exists and the orders in it
    gcs_added,      \* how many orders add_order has been called with so far
    gcs_calls       \* each caller of GCSStorage.add_order: the statement reached and its locals

consVars == <<ca_pc, ca_model, current_odds, results, errors, analysis>>
execVars == <<ex_pc, signal, validation, size, place_args, order_id, calls, posted,
              trade_result, initialized, client, api_creds>>

\* The method called on the executor and what a read of the exchange returned.
opVars == <<operation, returned>>

kellyVars == <<k_pc, kelly, kelly_args, kelly_result>>
\* What the caller handed the constructor: never written after it.
givenVars == <<kelly_given>>

sizeVars == <<ps_pc, ps_args, ps_result>>

\* The record kept of the calls of consensus_analysis (history variables).
recordVars == <<ca_heard, ca_earlier>>

agentVars == <<running, auto_trade, executor, threads, last_start,
               toggle_called, last_execute, order_placed, last_market>>

\* The decision history and the runs of run_agent_cycle writing it.
cycleVars == <<decisions, completed, cycle>>

\* The order history in Google Cloud Storage and the calls writing it.
storageVars == <<gcs_file, gcs_added, gcs_calls>>

vars == <<consVars, recordVars, execVars, opVars, kellyVars, givenVars, sizeVars, agentVars,
         cycleVars, storageVars>>

\* What a step of one component leaves alone.
notRecorded == <<execVars, opVars, kellyVars, givenVars, sizeVars, agentVars, cycleVars, storageVars>>
notCons == <<recordVars, notRecorded>>
notExec == <<consVars, recordVars, opVars, kellyVars, givenVars, sizeVars, agentVars, cycleVars, storageVars>>
notClient == <<consVars, recordVars, kellyVars, givenVars, sizeVars, agentVars, cycleVars, storageVars>>
notKelly == <<consVars, recordVars, execVars, opVars, givenVars, sizeVars, agentVars, cycleVars, storageVars>>
notSize == <<consVars, recordVars, execVars, opVars, kellyVars, givenVars, agentVars, cycleVars, storageVars>>
notCycle == <<consVars, recordVars, execVars, opVars, kellyVars, givenVars, sizeVars,
              agentVars, storageVars>>
notStorage == <<consVars, recordVars, execVars, opVars, kellyVars, givenVars, sizeVars,
                agentVars, cycleVars>>
notAgent == <<consVars, recordVars, execVars, opVars, kellyVars, givenVars, sizeVars, cycleVars, storageVars>>

----------------------------------------------------------------------------
(* Units and Python's None *)

Unit == 100 * 6
ConfUnit == 2 * 3
None == "None"
NoValue == [pending |-> TRUE]

Abs(x) == IF x < 0 THEN -x ELSE x

\* Exact fractions n/d for the float arithmetic of the sizing formulas,
\* kept in lowest terms with d > 0.
RECURSIVE GCD(_, _)
GCD(a, b) == IF b = 0 THEN a ELSE GCD(b, a % b)

R(n, d) ==
    LET g == GCD(Abs(n), Abs(d))
        sgn == IF d < 0 THEN -1 ELSE 1
    IN  [n |-> (sgn * n) \div g, d |-> (sgn * d) \div g]
RInt(k) == [n |-> k, d |-> 1]
RAdd(a, b) == R(a.n * b.d + b.n * a.d, a.d * b.d)
RSub(a, b) == R(a.n * b.d - b.n * a.d, a.d * b.d)
RMul(a, b) == R(a.n * b.n, a.d * b.d)
RDiv(a, b) == R(a.n * b.d, a.d * b.n)
RLt(a, b) == a.n * b.d < b.n * a.d

RECURSIVE SumOver(_, _)
SumOver(seq, field) ==
    IF seq = <<>> THEN 0
    ELSE Head(seq)[field] + SumOver(Tail(seq), field)

\* sum(1 for r in seq if Test(r))
CountIf(seq, Test(_)) == Cardinality({i \in 1..Len(seq) : Test(seq[i])})

----------------------------------------------------------------------------
(* AIAnalyzer.consensus_analysis *)

CONSENSUS_MODELS ==
    << "openai/gpt-4o-mini", "google/gemini-2.5-flash", "anthropic/claude-haiku-4.5" >>

NumModels == Len(CONSENSUS_MODELS)

\* model.split("/")[-1]
ShortName(model) ==
    CASE model = "openai/gpt-4o-mini" -> "gpt-4o-mini"
      [] model = "google/gemini-2.5-flash" -> "gemini-2.5-flash"
      [] model = "anthropic/claude-haiku-4.5" -> "claude-haiku-4.5"

\* What a reply can hold for a PROBABILITY: / CONFIDENCE: line: no such line,
\* a line whose value float()/int() rejects, or a number (any integer: the
\* model is asked for 0-100 and 1-10 but nothing makes it comply).
NoLine == [kind |-> "NoLine", value |-> 0]
Unparsable == [kind |-> "Unparsable", value |-> 0]
Number(n) == [kind |-> "Number", value |-> n]

\* Market odds the call is made with (percent).
OddsPct == {50, 51}
\* Numbers a reply's PROBABILITY line can carry (percent).
ReplyProbPct == {5, 44, 45, 55, 56, 150}
\* Numbers a reply's CONFIDENCE line can carry.
ReplyConf == {2, 9, 11}

ProbLines == {NoLine, Unparsable} \cup {Number(n) : n \in ReplyProbPct}
ConfLines == {NoLine} \cup {Number(n) : n \in ReplyConf}
Replies == [probability_line : ProbLines, confidence_line : ConfLines]

\* A missing or rejected PROBABILITY line read as a probability of 0.
ParseProbability_Zero(line, odds) ==
    IF line.kind # "Number" THEN 0 ELSE (line.value * Unit) \div 100

\* ai_prob = current_odds; ... float(...) / 100, except: pass
ParseProbability(line, odds) ==
    IF line.kind # "Number" THEN odds ELSE (line.value * Unit) \div 100

\* confidence = 5; ... int(...), except: pass   (in ConfUnit-ths)
ParseConfidence(line) ==
    IF line.kind # "Number" THEN 5 * ConfUnit ELSE line.value * ConfUnit

\* The dict appended to results for one successful chat call.
Estimate(model, reply, odds) ==
    LET ai_prob == ParseProbability(reply.probability_line, odds)
        confidence == ParseConfidence(reply.confidence_line)
    IN  [ model |-> ShortName(model),
          probability |-> ai_prob,
          confidence |-> confidence,
          edge |-> ai_prob - odds ]

\* 0.05 in Unit-ths
VoteThreshold == (5 * Unit) \div 100

\* An edge of exactly 0.05 taken as a YES vote.
IsYesVote_Inclusive(r) == r.edge >= VoteThreshold

IsYesVote(r) == r.edge > VoteThreshold
IsNoVote(r) == r.edge < -VoteThreshold

yes_votes(rs) == CountIf(rs, IsYesVote)
no_votes(rs) == CountIf(rs, IsNoVote)
hold_votes(rs) == Len(rs) - yes_votes(rs) - no_votes(rs)

\* A single vote taken as enough to trade.
Recommend_AnyVote(yes, no) ==
    IF yes >= 1 THEN [recommendation |-> "BET YES", consensus |-> "BULLISH"]
    ELSE IF no >= 1 THEN [recommendation |-> "BET NO", consensus |-> "BEARISH"]
    ELSE [recommendation |-> "SKIP", consensus |-> "MIXED"]

\* if yes_votes >= 2 ... elif no_votes >= 2 ... else
Recommend(yes, no) ==
    IF yes >= 2 THEN [recommendation |-> "BET YES", consensus |-> "BULLISH"]
    ELSE IF no >= 2 THEN [recommendation |-> "BET NO", consensus |-> "BEARISH"]
    ELSE [recommendation |-> "SKIP", consensus |-> "MIXED"]

\* The mean taken over the configured models, failed ones counting as zero.
avg_prob_AllModels(rs) == SumOver(rs, "probability") \div NumModels

avg_prob(rs) == SumOver(rs, "probability") \div Len(rs)
avg_confidence(rs) == SumOver(rs, "confidence") \div Len(rs)

\* The dict built from a non-empty results list (the code from
\* "# Calculate consensus" to the final return).
Aggregate(rs, errs, odds) ==
    LET rec == Recommend(yes_votes(rs), no_votes(rs)) IN
    [ consensus |-> rec.consensus,
      recommendation |-> rec.recommendation,
      avg_probability |-> avg_prob(rs),
      avg_confidence |-> avg_confidence(rs),
      avg_edge |-> avg_prob(rs) - odds,
      market_probability |-> odds,
      yes_votes |-> yes_votes(rs),
      no_votes |-> no_votes(rs),
      hold_votes |-> hold_votes(rs),
      models_used |-> Len(rs),
      model_results |-> rs,
      errors |-> IF errs # <<>> THEN errs ELSE None ]

\* Without the `if not results` guard the means divide by len(results) = 0.
AfterLoop_NoGuard(rs, errs, odds) ==
    IF Len(rs) = 0 THEN [raised |-> TRUE, value |-> NoValue]
    ELSE [raised |-> FALSE, value |-> Aggregate(rs, errs, odds)]

\* The code after the loop: the `if not results` return, else the aggregate.
\* raised tells whether an exception leaves the function instead.
AfterLoop(rs, errs, odds) ==
    IF rs = <<>> THEN
        [ raised |-> FALSE,
          value |-> [ consensus |-> "ERROR",
                      recommendation |-> "SKIP",
                      error |-> "All models failed",
                      errors |-> errs ] ]
    ELSE [raised |-> FALSE, value |-> Aggregate(rs, errs, odds)]

\* A handler that lets the exception leave consensus_analysis.
ChatExcept_Propagates(model) ==
    /\ errors' = errors
    /\ ca_pc' = "raised"
    /\ ca_model' = ca_model

\* except Exception as e: errors.append(...)  -- the loop goes on
ChatExcept(model) ==
    /\ errors' = Append(errors, [model |-> model, error |-> "exception"])
    /\ ca_pc' = "loop"
    /\ ca_model' = ca_model + 1

\* results = [] and errors = [] kept from the call before.
FreshList_LeftOver(previous) == previous

\* results = [] / errors = [] at the top of consensus_analysis
FreshList(previous) == <<>>

ConsInit ==
    /\ ca_pc = "loop"
    /\ ca_model = 1
    /\ current_odds \in {(p * Unit) \div 100 : p \in OddsPct}
    /\ results = <<>>
    /\ errors = <<>>
    /\ analysis = NoValue
    /\ ca_heard = <<>>
    /\ ca_earlier = <<>>

\* One iteration of the for loop whose chat call returns `reply`, parsed.
ModelReplies(reply) ==
    /\ ca_pc = "loop"
    /\ ca_model <= NumModels
    /\ results' = Append(results,
                         Estimate(CONSENSUS_MODELS[ca_model], reply, current_odds))
    /\ ca_model' = ca_model + 1
    /\ UNCHANGED <<ca_pc, current_odds, errors, analysis>>

ChatReplies ==
    /\ \E reply \in Replies : ModelReplies(reply)
    /\ UNCHANGED notCons

\* One iteration whose try block raises (the chat call, or parsing its reply).
ModelFails ==
    /\ ca_pc = "loop"
    /\ ca_model <= NumModels
    /\ ChatExcept(CONSENSUS_MODELS[ca_model])
    /\ UNCHANGED <<current_odds, results, analysis>>

ChatFails == ModelFails /\ UNCHANGED notCons

\* The code after the loop, up to the return.
AggregateAndReturn ==
    /\ ca_pc = "loop"
    /\ ca_model > NumModels
    /\ LET out == AfterLoop(results, errors, current_odds) IN
         /\ analysis' = out.value
         /\ ca_pc' = IF out.raised THEN "raised" ELSE "done"
    /\ UNCHANGED <<ca_model, current_odds, results, errors>>

ConsensusReturns == AggregateAndReturn /\ UNCHANGED notCons

\* The next call of consensus_analysis on the same analyzer.
Called ==
    /\ ca_pc \in {"done", "raised"}
    /\ ca_pc' = "loop"
    /\ ca_model' = 1
    /\ current_odds' \in {(p * Unit) \div 100 : p \in OddsPct}
    /\ results' = FreshList(results)
    /\ errors' = FreshList(errors)
    /\ analysis' = NoValue

ConsensusCalled == Called /\ UNCHANGED notCons

\* consensus_analysis is not running.
ConsIdle ==
    /\ ca_pc = "idle"
    /\ ca_model = 1
    /\ current_odds = 0
    /\ results = <<>>
    /\ errors = <<>>
    /\ analysis = NoValue
    /\ ca_heard = <<>>
    /\ ca_earlier = <<>>

ConsNext == ChatReplies \/ ChatFails \/ ConsensusReturns \/ ConsensusCalled

\* The same calls with a record kept of them: what each chat call answered
\* in the running call, and the inputs and returned dict of the
\* MaxEarlier calls before it.  The replies are a confident YES estimate
\* and a reply without parsable lines.
MaxEarlier == 1
FewReplies ==
    { [probability_line |-> Number(56), confidence_line |-> Number(9)],
      [probability_line |-> Unparsable, confidence_line |-> NoLine] }
Answer(reply) == [failed |-> FALSE, reply |-> reply]
NoAnswer == [failed |-> TRUE, reply |-> [probability_line |-> NoLine,
                                         confidence_line |-> NoLine]]
Remember(earlier, call) ==
    IF Len(earlier) < MaxEarlier THEN Append(earlier, call)
    ELSE Append(Tail(earlier), call)

RecordedChatReplies ==
    /\ \E reply \in FewReplies :
         /\ ModelReplies(reply)
         /\ ca_heard' = Append(ca_heard, Answer(reply))
    /\ UNCHANGED ca_earlier
    /\ UNCHANGED notRecorded

RecordedChatFails ==
    /\ ModelFails
    /\ ca_heard' = Append(ca_heard, NoAnswer)
    /\ UNCHANGED ca_earlier
    /\ UNCHANGED notRecorded

RecordedConsensusReturns ==
    /\ AggregateAndReturn
    /\ UNCHANGED recordVars
    /\ UNCHANGED notRecorded

RecordedConsensusCalled ==
    /\ Called
    /\ ca_earlier' = Remember(ca_earlier, [ current_odds |-> current_odds,
                                            heard |-> ca_heard,
                                            analysis |-> analysis ])
    /\ ca_heard' = <<>>
    /\ UNCHANGED notRecorded

RecordedNext ==
    \/ RecordedChatReplies \/ RecordedChatFails
    \/ RecordedConsensusReturns \/ RecordedConsensusCalled

\* The calls with every reply of Replies, and a record of the running call
\* only: what each of its chat calls answered.
HeardChatReplies ==
    /\ \E reply \in Replies :
         /\ ModelReplies(reply)
         /\ ca_heard' = Append(ca_heard, Answer(reply))
    /\ UNCHANGED ca_earlier
    /\ UNCHANGED notRecorded

HeardConsensusCalled ==
    /\ Called
    /\ ca_heard' = <<>>
    /\ UNCHANGED ca_earlier
    /\ UNCHANGED notRecorded

HeardNext ==
    \/ HeardChatReplies \/ RecordedChatFails
    \/ RecordedConsensusReturns \/ HeardConsensusCalled

----------------------------------------------------------------------------
(* TradeExecutor: validate_trade_signal, calculate_position_size,          *)
(* _ensure_initialized, place_market_order, execute_signal.                *)
(* Money is in cents, edges in Unit-ths, confidences in ConfUnit-ths.      *)

MAX_BET_SIZE == 10
MIN_CONFIDENCE == 5

\* f"{confidence:.1f}": the confidence rounded to tenths (in tenths)
Format1f(confidence) == (10 * confidence + (ConfUnit \div 2)) \div ConfUnit

\* A validator that also turns a signal away when its edge is zero.
validate_trade_signal_EdgeGate(action, edge, confidence, consensus) ==
    IF action \notin {"BET YES", "BET NO"} THEN
        [ should_trade |-> FALSE,
          reason |-> [text |-> "Action is {action} - no trade", action |-> action] ]
    ELSE IF confidence < MIN_CONFIDENCE * ConfUnit \/ edge = 0 THEN
        [ should_trade |-> FALSE,
          reason |-> [ text |-> "Confidence {confidence:.1f}/10 below minimum {MIN_CONFIDENCE}",
                       confidence |-> Format1f(confidence),
                       minimum |-> MIN_CONFIDENCE ] ]
    ELSE IF consensus = "MIXED" THEN
        [ should_trade |-> FALSE,
          reason |-> [text |-> "No clear model consensus (need 2+ models agreeing)"] ]
    ELSE
        [ should_trade |-> TRUE,
          reason |-> [ text |-> "AI consensus: {consensus} with {confidence:.1f}/10 confidence",
                       consensus |-> consensus,
                       confidence |-> Format1f(confidence) ] ]

validate_trade_signal(action, edge, confidence, consensus) ==
    IF action \notin {"BET YES", "BET NO"} THEN
        [ should_trade |-> FALSE,
          reason |-> [text |-> "Action is {action} - no trade", action |-> action] ]
    ELSE IF confidence < MIN_CONFIDENCE * ConfUnit THEN
        [ should_trade |-> FALSE,
          reason |-> [ text |-> "Confidence {confidence:.1f}/10 below minimum {MIN_CONFIDENCE}",
                       confidence |-> Format1f(confidence),
                       minimum |-> MIN_CONFIDENCE ] ]
    ELSE IF consensus = "MIXED" THEN
        [ should_trade |-> FALSE,
          reason |-> [text |-> "No clear model consensus (need 2+ models agreeing)"] ]
    ELSE
        [ should_trade |-> TRUE,
          reason |-> [ text |-> "AI consensus: {consensus} with {confidence:.1f}/10 confidence",
                       consensus |-> consensus,
                       confidence |-> Format1f(confidence) ] ]

\* round(n / d) for n >= 0, d > 0, halves to even as Python's round does
RoundHalfEven(n, d) ==
    LET q == n \div d
        r == n % d
    IN  IF 2 * r < d THEN q
        ELSE IF 2 * r > d THEN q + 1
        ELSE IF q % 2 = 0 THEN q ELSE q + 1

\* The edge taken with its sign.
calculate_position_size_Signed(edge, confidence, bankroll) ==
    LET num == bankroll * edge * confidence
        den == Unit * (10 * ConfUnit) * 2
        capped == IF num < (100 * MAX_BET_SIZE) * den
                  THEN [n |-> num, d |-> den]
                  ELSE [n |-> 100 * MAX_BET_SIZE, d |-> 1]
        floored == IF capped.n > 100 * capped.d THEN capped ELSE [n |-> 100, d |-> 1]
    IN  RoundHalfEven(floored.n, floored.d)

\* bankroll * abs(edge) * (confidence / 10) * 0.5, clamped to [1.0, MAX_BET_SIZE],
\* rounded to cents.  bankroll and the result are in cents.
calculate_position_size(edge, confidence, bankroll) ==
    LET num == bankroll * Abs(edge) * confidence
        den == Unit * (10 * ConfUnit) * 2
        capped == IF num < (100 * MAX_BET_SIZE) * den
                  THEN [n |-> num, d |-> den]
                  ELSE [n |-> 100 * MAX_BET_SIZE, d |-> 1]
        floored == IF capped.n > 100 * capped.d THEN capped ELSE [n |-> 100, d |-> 1]
    IN  RoundHalfEven(floored.n, floored.d)

\* Token ids are opaque strings; the code reads their truth value and length.
Token(name, len) == [name |-> name, len |-> len]
TokenIds == {Token("", 0), Token("7132104567...", 77)}

Actions == {"BET YES", "BET NO", "SKIP"}
Consensuses == {"BULLISH", "BEARISH", "MIXED"}
\* avg_confidence values: 4, 4.83, 5 and 8
Confidences == {4 * ConfUnit, 29, 5 * ConfUnit, 8 * ConfUnit}
\* avg_edge values: -0.10, 0 and +0.10
Edges == {-(Unit \div 10), 0, Unit \div 10}
\* bankroll: 0, 100 and 1000 dollars
Bankrolls == {0, 100 * 100, 1000 * 100}

Signals == [ token_id : TokenIds, action : Actions, edge : Edges,
             confidence : Confidences, consensus : Consensuses,
             bankroll : Bankrolls ]

\* Best asks get_best_price can return (cents per share).
AskPrices == {37, 50}
\* What client.create_and_post_order can answer.
PostResponses == {"exception", "empty", "orderID", "order_id", "id", "no id field"}

NoSize == -1

\* price: Optional[float] = None, or a price in cents per share
NoPrice == [given |-> FALSE, value |-> 0]
Price(p) == [given |-> TRUE, value |-> p]
Call(name) == calls' = Append(calls, name)

\* The methods under which place_market_order runs, and the three that read
\* the exchange through the client.
Placing == {"execute_signal", "place_market_order"}
Reads == {"get_orderbook", "get_open_orders", "get_positions"}

\* execute_signal going on to size and place whatever the validator said.
AfterValidation_NoGate(should_trade) == "size"

\* if not should_trade: return {"status": "skipped", ...}
AfterValidation(should_trade) == IF should_trade THEN "size" ELSE "skipped"

\* A new TradeExecutor on which execute_signal has just been called.
ExecInit ==
    /\ ex_pc = "validate"
    /\ operation = "execute_signal"
    /\ returned = NoValue
    /\ signal \in Signals
    /\ validation = NoValue
    /\ size = NoSize
    /\ place_args = NoValue
    /\ order_id = None
    /\ calls = <<>>
    /\ posted = <<>>
    /\ trade_result = NoValue
    /\ initialized = FALSE
    /\ client = None
    /\ api_creds = None

\* No TradeExecutor in play.
ExecIdle ==
    /\ ex_pc = "idle"
    /\ operation = None
    /\ returned = NoValue
    /\ signal = NoValue
    /\ validation = NoValue
    /\ size = NoSize
    /\ place_args = NoValue
    /\ order_id = None
    /\ calls = <<>>
    /\ posted = <<>>
    /\ trade_result = NoValue
    /\ initialized = FALSE
    /\ client = None
    /\ api_creds = None

\* should_trade, reason = self.validate_trade_signal(...); if not should_trade: return
ExecValidates ==
    /\ ex_pc = "validate"
    /\ LET v == validate_trade_signal(signal.action, signal.edge,
                                      signal.confidence, signal.consensus)
           next == AfterValidation(v.should_trade)
       IN  /\ validation' = v
           /\ Call("validate_trade_signal")
           /\ IF next = "skipped"
              THEN /\ trade_result' = [status |-> "skipped", reason |-> v.reason]
                   /\ ex_pc' = "done"
              ELSE /\ trade_result' = trade_result
                   /\ ex_pc' = next
    /\ UNCHANGED <<signal, place_args, size, order_id, posted, initialized, client, api_creds>>
    /\ UNCHANGED notExec

\* size = self.calculate_position_size(edge, confidence, bankroll), handed to
\* self.place_market_order(token_id, side, size)
ExecSizes ==
    /\ ex_pc = "size"
    /\ size' = calculate_position_size(signal.edge, signal.confidence, signal.bankroll)
    /\ place_args' = [ token_id |-> signal.token_id, amount_usdc |-> size',
                       price |-> NoPrice ]
    /\ Call("calculate_position_size")
    /\ ex_pc' = "place"
    /\ UNCHANGED <<signal, validation, order_id, posted, trade_result,
                   initialized, client, api_creds>>
    /\ UNCHANGED notExec

\* place_market_order: the checks of its arguments
PlaceChecksArguments ==
    /\ ex_pc = "place"
    /\ Call("place_market_order")
    /\ order_id' = None
    /\ ex_pc' = IF place_args.token_id.name = "" \/ place_args.token_id.len < 10
                THEN "return"
                ELSE IF place_args.amount_usdc <= 0 THEN "return"
                ELSE "ensure"
    /\ UNCHANGED <<signal, place_args, validation, size, posted, trade_result,
                   initialized, client, api_creds>>
    /\ UNCHANGED notExec

\* _ensure_initialized: if self._initialized: return True
EnsureAlreadyInitialized ==
    /\ ex_pc = "ensure"
    /\ initialized
    /\ Call("_ensure_initialized")
    /\ ex_pc' = "price"
    /\ UNCHANGED <<signal, place_args, validation, size, order_id, posted, trade_result,
                   initialized, client, api_creds>>
    /\ UNCHANGED notExec

\* _ensure_initialized builds the client, from stored or derived credentials
EnsureInitializes ==
    /\ ex_pc = "ensure"
    /\ ~initialized
    /\ Call("_ensure_initialized")
    /\ api_creds' = "ApiCreds"
    /\ client' = "ClobClient"
    /\ initialized' = TRUE
    /\ ex_pc' = "price"
    /\ UNCHANGED <<signal, place_args, validation, size, order_id, posted, trade_result>>
    /\ UNCHANGED notExec

\* The method going on to use the client after _ensure_initialized failed.
AfterEnsureFails_CarriesOn == "price"

\* if not self._ensure_initialized(): return None (or [])
AfterEnsureFails == "return"

\* _ensure_initialized fails: the imports raise (nothing is set), ClobClient
\* raises after the stored credentials were kept, deriving credentials
\* raises after the client was built, or reading the derived credentials
\* raises after both were kept.  The method called returns None (or []).
EnsureFails ==
    /\ ex_pc = "ensure"
    /\ ~initialized
    /\ Call("_ensure_initialized")
    /\ \E at \in {"import", "stored", "derive", "derived"} :
         /\ api_creds' = IF at \in {"stored", "derived"} THEN "ApiCreds" ELSE api_creds
         /\ client' = IF at \in {"derive", "derived"} THEN "ClobClient" ELSE client
    /\ ex_pc' = AfterEnsureFails
    /\ UNCHANGED <<signal, place_args, validation, size, order_id, posted, trade_result, initialized>>
    /\ UNCHANGED notExec

\* No price was given and get_best_price returns None (no client answer, no
\* order book, no asks, a price float() rejects), or the price (given, or
\* the best ask) is 0 and amount_usdc / price raises inside the try:
\* place_market_order returns None, nothing is posted.
PlaceFindsNoPrice ==
    /\ ex_pc = "price"
    /\ operation \in Placing
    /\ place_args.price.given => place_args.price.value = 0
    /\ ex_pc' = "return"
    /\ UNCHANGED <<signal, place_args, validation, size, order_id, calls, posted, trade_result,
                   initialized, client, api_creds>>
    /\ UNCHANGED notExec

\* The amount posted as it was requested.
SafetyLimit_None(amount_usdc) == amount_usdc

\* if amount_usdc > MAX_BET_SIZE: amount_usdc = MAX_BET_SIZE (in cents)
SafetyLimit(amount_usdc) ==
    IF amount_usdc > 100 * MAX_BET_SIZE THEN 100 * MAX_BET_SIZE ELSE amount_usdc

\* amount_usdc capped at MAX_BET_SIZE, size = amount_usdc / price, and
\* client.create_and_post_order(order_args) with each answer it can give.
PlacePosts ==
    /\ ex_pc = "price"
    /\ operation \in Placing
    /\ \E price \in (IF place_args.price.given
                      THEN {place_args.price.value} \ {0} ELSE AskPrices),
          response \in PostResponses :
         LET amount_usdc == SafetyLimit(place_args.amount_usdc)
             order == [ token_id |-> place_args.token_id.name,
                        price |-> price,
                        size |-> [num |-> amount_usdc, den |-> price],
                        side |-> "BUY",
                        response |-> response ]
         IN  /\ posted' = IF response = "exception" THEN posted
                          ELSE Append(posted, order)
             /\ order_id' = IF response \in {"orderID", "order_id", "id"}
                            THEN "0xorder" ELSE None
    /\ Call("create_and_post_order")
    /\ ex_pc' = "return"
    /\ UNCHANGED <<signal, place_args, validation, size, trade_result, initialized, client, api_creds>>
    /\ UNCHANGED notExec

\* if order_id: return {"status": "submitted", ...} else: {"status": "failed", ...}
ExecReturns ==
    /\ ex_pc = "return"
    /\ trade_result' =
         IF order_id # None
         THEN [ status |-> "submitted", order_id |-> order_id,
                action |-> signal.action, size |-> size, edge |-> signal.edge,
                confidence |-> signal.confidence,
                message |-> "Order submitted to orderbook (waiting to fill)" ]
         ELSE [ status |-> "failed",
                reason |-> [text |-> "Order placement failed - check logs for details"] ]
    /\ ex_pc' = "done"
    /\ UNCHANGED <<signal, place_args, validation, size, order_id, calls, posted,
                   initialized, client, api_creds>>
    /\ UNCHANGED notExec

\* The next call of execute_signal on the same executor.
ExecuteSignalCalled ==
    /\ ex_pc = "done"
    /\ ex_pc' = "validate"
    /\ signal' \in Signals
    /\ validation' = NoValue
    /\ size' = NoSize
    /\ place_args' = NoValue
    /\ order_id' = None
    /\ calls' = <<>>
    /\ posted' = <<>>
    /\ trade_result' = NoValue
    /\ UNCHANGED <<initialized, client, api_creds>>
    /\ UNCHANGED notExec

ExecNext ==
    \/ ExecValidates \/ ExecSizes \/ PlaceChecksArguments
    \/ EnsureAlreadyInitialized \/ EnsureInitializes \/ EnsureFails
    \/ PlaceFindsNoPrice \/ PlacePosts \/ ExecReturns \/ ExecuteSignalCalled

\* place_market_order called on its own: amounts of -1, 0, 0.01, 10, 10.01
\* and 25 dollars, the price left out or given as 0, 0.37 or 0.99.
PlaceAmounts == {-100, 0, 1, 100 * MAX_BET_SIZE, 100 * MAX_BET_SIZE + 1, 25 * 100}
PlacePrices == {NoPrice, Price(0), Price(37), Price(99)}
PlaceArgs ==
    [token_id : TokenIds, amount_usdc : PlaceAmounts, price : PlacePrices]

\* A new TradeExecutor on which place_market_order has just been called.
PlaceInit ==
    /\ ex_pc = "place"
    /\ operation = "place_market_order"
    /\ returned = NoValue
    /\ place_args \in PlaceArgs
    /\ signal = NoValue
    /\ validation = NoValue
    /\ size = NoSize
    /\ order_id = None
    /\ calls = <<>>
    /\ posted = <<>>
    /\ trade_result = NoValue
    /\ initialized = FALSE
    /\ client = None
    /\ api_creds = None

\* place_market_order returns order_id, or None, to a caller other than
\* execute_signal.
PlaceReturns ==
    /\ ex_pc = "return"
    /\ operation = "place_market_order"
    /\ ex_pc' = "done"
    /\ UNCHANGED <<signal, place_args, validation, size, order_id, calls, posted,
                   trade_result, initialized, client, api_creds>>
    /\ UNCHANGED notExec

\* The next call of place_market_order on the same executor.
PlaceMarketOrderCalled ==
    /\ ex_pc = "done"
    /\ ex_pc' = "place"
    /\ place_args' \in PlaceArgs
    /\ order_id' = None
    /\ calls' = <<>>
    /\ posted' = <<>>
    /\ UNCHANGED <<signal, validation, size, trade_result, initialized, client, api_creds>>
    /\ UNCHANGED notExec

PlaceNext ==
    \/ PlaceChecksArguments
    \/ EnsureAlreadyInitialized \/ EnsureInitializes \/ EnsureFails
    \/ PlaceFindsNoPrice \/ PlacePosts \/ PlaceReturns \/ PlaceMarketOrderCalled

\* What a read returns: None, an order book, or a list of so many entries.
PyNone == [kind |-> "None", len |-> 0]
OrderBook == [kind |-> "OrderBookSummary", len |-> 0]
List(n) == [kind |-> "list", len |-> n]

\* return None of get_orderbook, return [] of get_open_orders and
\* get_positions, when the client is not initialized
EmptyResult(op) == IF op = "get_orderbook" THEN PyNone ELSE List(0)

\* The calls a read makes on the client, each with the results it can give:
\* get_order_book (an exception gives None); get_orders (no orders, or an
\* exception, give []); get_balances where the client has it, then
\* get_orders where that gave nothing.
ClientAnswers(op) ==
    IF op = "get_orderbook"
    THEN { [made |-> <<"get_order_book">>, result |-> r] : r \in {OrderBook, PyNone} }
    ELSE IF op = "get_open_orders"
    THEN { [made |-> <<"get_orders">>, result |-> List(n)] : n \in 0..1 }
    ELSE { [made |-> m, result |-> List(n)] :
             m \in { <<"get_balances">>, <<"get_balances", "get_orders">>,
                     <<"get_orders">> },
             n \in 0..1 }

ClientOperations == Reads \cup {"place_market_order"}

\* A new TradeExecutor on which one of the four methods has just been called.
ClientInit ==
    /\ operation \in ClientOperations
    /\ ex_pc = IF operation \in Reads THEN "ensure" ELSE "place"
    /\ place_args \in IF operation \in Reads THEN {NoValue} ELSE PlaceArgs
    /\ returned = NoValue
    /\ signal = NoValue
    /\ validation = NoValue
    /\ size = NoSize
    /\ order_id = None
    /\ calls = <<>>
    /\ posted = <<>>
    /\ trade_result = NoValue
    /\ initialized = FALSE
    /\ client = None
    /\ api_creds = None

\* The client is there: the read calls the exchange and returns.
ClientReads ==
    /\ ex_pc = "price"
    /\ operation \in Reads
    /\ \E answer \in ClientAnswers(operation) :
         /\ calls' = calls \o answer.made
         /\ returned' = answer.result
    /\ ex_pc' = "done"
    /\ UNCHANGED <<signal, place_args, validation, size, order_id, posted, trade_result,
                   initialized, client, api_creds, operation>>
    /\ UNCHANGED notClient

\* if not self._ensure_initialized(): return None (get_orderbook), return []
\* (get_open_orders, get_positions)
ClientReadRefused ==
    /\ ex_pc = "return"
    /\ operation \in Reads
    /\ returned' = EmptyResult(operation)
    /\ ex_pc' = "done"
    /\ UNCHANGED <<signal, place_args, validation, size, order_id, calls, posted,
                   trade_result, initialized, client, api_creds, operation>>
    /\ UNCHANGED notClient

\* The next call of one of the four methods on the same executor.
OperationCalled ==
    /\ ex_pc = "done"
    /\ \E op \in ClientOperations :
         /\ operation' = op
         /\ ex_pc' = IF op \in Reads THEN "ensure" ELSE "place"
         /\ place_args' \in IF op \in Reads THEN {NoValue} ELSE PlaceArgs
    /\ returned' = NoValue
    /\ order_id' = None
    /\ calls' = <<>>
    /\ posted' = <<>>
    /\ UNCHANGED <<signal, validation, size, trade_result, initialized, client, api_creds>>
    /\ UNCHANGED notClient

ClientNext ==
    \/ PlaceChecksArguments
    \/ EnsureAlreadyInitialized \/ EnsureInitializes \/ EnsureFails
    \/ PlaceFindsNoPrice \/ PlacePosts \/ PlaceReturns
    \/ ClientReads \/ ClientReadRefused \/ OperationCalled

\* calculate_position_size called on its own: edges of -0.5, -0.1, 0, 1/600,
\* 0.1 and 1, confidences of 1 to 10 and 4.83, bankrolls of 0, 0.50, 33.33,
\* 100 and 300 dollars.
SizeEdges == {-(Unit \div 2), -(Unit \div 10), 0, 1, Unit \div 10, Unit}
SizeConfidences == {c * ConfUnit : c \in 1..10} \cup {29}
SizeBankrolls == {0, 50, 3333, 100 * 100, 300 * 100}
SizeArgs == [edge : SizeEdges, confidence : SizeConfidences, bankroll : SizeBankrolls]

SizeInit ==
    /\ ps_pc = "call"
    /\ ps_args \in SizeArgs
    /\ ps_result = NoSize

\* No call of calculate_position_size on its own.
SizeIdle ==
    /\ ps_pc = "idle"
    /\ ps_args = NoValue
    /\ ps_result = NoSize

\* calculate_position_size runs to its return.
CalculatePositionSize ==
    /\ ps_pc = "call"
    /\ ps_result' = calculate_position_size(ps_args.edge, ps_args.confidence,
                                            ps_args.bankroll)
    /\ ps_pc' = "done"
    /\ UNCHANGED ps_args
    /\ UNCHANGED notSize

\* The next call of calculate_position_size.
CalculatePositionSizeCalled ==
    /\ ps_pc = "done"
    /\ ps_pc' = "call"
    /\ ps_args' \in SizeArgs
    /\ ps_result' = NoSize
    /\ UNCHANGED notSize

SizeNext == CalculatePositionSize \/ CalculatePositionSizeCalled

----------------------------------------------------------------------------
(* KellyCriterion (Mode A).  Probabilities, edges and the two percentages  *)
(* are in Unit-ths, the bankroll and bet_size in cents, the Kelly          *)
(* fractions exact fractions.                                              *)

\* The defaults of os.getenv in __init__: bankroll in dollars, the two
\* fractions in percent.
INITIAL_BANKROLL == 100
MAX_BET_PERCENTAGE == 5
MIN_EDGE_PERCENTAGE == 15

\* An optional constructor argument: left out (None) or given.
NoArg == [given |-> FALSE, value |-> 0]
Some(v) == [given |-> TRUE, value |-> v]

\* arg or default: None and 0 both give the default
Or(arg, default) == IF arg.given /\ arg.value # 0 THEN arg.value ELSE default

\* The process environment (after load_dotenv): each variable unset or set
\* to a number.  The environments tried: nothing set, MIN_EDGE_PERCENTAGE=0,
\* INITIAL_BANKROLL=0.
NoEnviron ==
    [ INITIAL_BANKROLL |-> NoArg, MAX_BET_PERCENTAGE |-> NoArg,
      MIN_EDGE_PERCENTAGE |-> NoArg ]
Environs ==
    { NoEnviron,
      [NoEnviron EXCEPT !.MIN_EDGE_PERCENTAGE = Some(0)],
      [NoEnviron EXCEPT !.INITIAL_BANKROLL = Some(0)] }

\* float(os.getenv(name, default))
Getenv(variable, default) == IF variable.given THEN variable.value ELSE default

\* KellyCriterion.__init__
KellyCriterion(environ, bankroll, max_bet_pct, min_edge_pct, kelly_fraction) ==
    [ bankroll |->
          Or(bankroll, Getenv(environ.INITIAL_BANKROLL, 100 * INITIAL_BANKROLL)),
      max_bet_pct |->
          Or(max_bet_pct, Getenv(environ.MAX_BET_PERCENTAGE,
                                 (MAX_BET_PERCENTAGE * Unit) \div 100)),
      min_edge_pct |->
          Or(min_edge_pct, Getenv(environ.MIN_EDGE_PERCENTAGE,
                                  (MIN_EDGE_PERCENTAGE * Unit) \div 100)),
      kelly_fraction |-> kelly_fraction ]

\* The edge taken from the market's side.
calculate_edge_Reversed(estimated_prob, market_prob) == market_prob - estimated_prob

calculate_edge(estimated_prob, market_prob) == estimated_prob - market_prob

\* The edge read as a percentage against a minimum that is a fraction.
BelowMinEdge_Percent(edge, min_edge_pct) == Abs(edge) * 100 < min_edge_pct

\* abs(edge) < self.min_edge_pct
BelowMinEdge(edge, min_edge_pct) == Abs(edge) < min_edge_pct

\* The safety multiplier applied but no cap.
kelly_capped_NoCap(kelly_adjusted, max_bet_pct) ==
    IF RLt(kelly_adjusted, RInt(0)) THEN RInt(0) ELSE kelly_adjusted

\* min(kelly_adjusted, self.max_bet_pct), then max(kelly_capped, 0)
kelly_capped(kelly_adjusted, max_bet_pct) ==
    LET max_bet == R(max_bet_pct, Unit)
        capped == IF RLt(max_bet, kelly_adjusted) THEN max_bet ELSE kelly_adjusted
    IN  IF RLt(capped, RInt(0)) THEN RInt(0) ELSE capped

\* What kelly_bet_size returns; [raised |-> ...] when an exception leaves it.
kelly_bet_size(self, estimated_prob, market_prob) ==
    LET edge == calculate_edge(estimated_prob, market_prob) IN
    IF BelowMinEdge(edge, self.min_edge_pct) THEN
        [ should_bet |-> FALSE,
          reason |-> [ text |-> "Edge {edge*100:.1f}% below minimum {self.min_edge_pct*100:.1f}%",
                       edge |-> edge, minimum |-> self.min_edge_pct ],
          edge |-> edge,
          bet_size |-> 0,
          side |-> None ]
    ELSE
        LET side == IF edge > 0 THEN "YES" ELSE "NO"
            p == IF edge > 0 THEN estimated_prob ELSE Unit - estimated_prob
            \* odds = 1 / market_prob, or 1 / (1 - market_prob)
            divisor == IF edge > 0 THEN market_prob ELSE Unit - market_prob
        IN  IF divisor = 0 THEN [raised |-> "ZeroDivisionError"]
            ELSE
              LET odds == R(Unit, divisor)
                  b == RSub(odds, RInt(1))
                  q == RSub(RInt(1), R(p, Unit))
                  kelly_fraction_raw ==
                      IF RLt(RInt(0), b)
                      THEN RDiv(RSub(RMul(b, R(p, Unit)), q), b)
                      ELSE RInt(0)
                  kelly_adjusted == RMul(kelly_fraction_raw, self.kelly_fraction)
                  capped == kelly_capped(kelly_adjusted, self.max_bet_pct)
                  bet_size == RMul(RInt(self.bankroll), capped)
              IN  [ should_bet |-> RLt(RInt(0), bet_size),
                    side |-> side,
                    edge |-> Abs(edge),
                    kelly_raw |-> kelly_fraction_raw,
                    kelly_adjusted |-> kelly_adjusted,
                    bet_size |-> RoundHalfEven(bet_size.n, bet_size.d),
                    bet_percentage |-> RMul(capped, RInt(100)),
                    expected_value |-> RMul(bet_size, R(Abs(edge), Unit)) ]

\* Constructor arguments: bankroll None, 0, 4 cents or 10 dollars;
\* max_bet_pct None, 0 or 50%; min_edge_pct None, 0 or 2%; kelly_fraction
\* -0.25, 0, 0.25 or 1.
BankrollArgs == {NoArg, Some(0), Some(2 * 2), Some(10 * 100)}
MaxBetArgs == {NoArg, Some(0), Some(Unit \div 2)}
MinEdgeArgs == {NoArg, Some(0), Some((2 * Unit) \div 100)}
KellyFractions == {R(-1, 4), RInt(0), R(1, 4), RInt(1)}
KellyGiven ==
    [ environ : Environs, bankroll : BankrollArgs, max_bet_pct : MaxBetArgs,
      min_edge_pct : MinEdgeArgs, kelly_fraction : KellyFractions ]
Built(given) ==
    KellyCriterion(given.environ, given.bankroll, given.max_bet_pct,
                   given.min_edge_pct, given.kelly_fraction)
KellyObjects == { Built(given) : given \in KellyGiven }

\* estimated_prob and market_prob, in percent
EstimatedPct == {0, 35, 48, 50, 52, 65, 70, 100}
MarketPct == {0, 50, 100}
KellyArgs ==
    { [estimated_prob |-> (e * Unit) \div 100, market_prob |-> (m * Unit) \div 100] :
        e \in EstimatedPct, m \in MarketPct }

\* A KellyCriterion has been built and kelly_bet_size is being called on it.
KellyInit ==
    /\ k_pc = "call"
    /\ kelly_given \in KellyGiven
    /\ kelly = Built(kelly_given)
    /\ kelly_args \in KellyArgs
    /\ kelly_result = NoValue

\* No KellyCriterion in play.
KellyIdle ==
    /\ k_pc = "idle"
    /\ kelly_given = NoValue
    /\ kelly = NoValue
    /\ kelly_args = NoValue
    /\ kelly_result = NoValue

\* kelly_bet_size runs to its return, or raises.
KellyBetSize ==
    /\ k_pc = "call"
    /\ kelly_result' = kelly_bet_size(kelly, kelly_args.estimated_prob, kelly_args.market_prob)
    /\ k_pc' = "done"
    /\ UNCHANGED <<kelly, kelly_args>>
    /\ UNCHANGED notKelly

\* The next call of kelly_bet_size on the same object.
KellyCalled ==
    /\ k_pc = "done"
    /\ k_pc' = "call"
    /\ kelly_args' \in KellyArgs
    /\ kelly_result' = NoValue
    /\ UNCHANGED kelly
    /\ UNCHANGED notKelly

KellyNext == KellyBetSize \/ KellyCalled

----------------------------------------------------------------------------
(* app.py: the agent state, the background loop and the control endpoints. *)
(* Flask serves each request on a thread of its own, so handlers and loop  *)
(* threads interleave statement by statement.  Threads are counted by the  *)
(* position they stand at; time.sleep ends at any moment.                  *)

\* Threads alive at once: request handlers and agent_loop threads together.
MaxThreads == 2

Positions ==
    { "start_agent: if state.running",
      "start_agent: state.running = True",
      "agent_loop: while state.running",
      "agent_loop: run_agent_cycle",
      "agent_loop: time.sleep",
      "api_run_once: run_agent_cycle" }
CyclePositions == {"agent_loop: run_agent_cycle", "api_run_once: run_agent_cycle"}

RECURSIVE Total(_, _)
Total(count, positions) ==
    IF positions = {} THEN 0
    ELSE LET pos == CHOOSE q \in positions : TRUE
         IN  count[pos] + Total(count, positions \ {pos})
Alive == Total(threads, Positions)

Leaves(pos) == [threads EXCEPT ![pos] = @ - 1]
Moves(from, to) == [threads EXCEPT ![from] = @ - 1, ![to] = @ + 1]

NoStart == [called |-> FALSE, saw_running |-> FALSE, returned |-> FALSE,
            spawned |-> FALSE]
NoExecute == [called |-> FALSE, auto_trade |-> FALSE, executor |-> FALSE,
              action |-> "", yes_token |-> "", no_token |-> "", token_id |-> ""]

\* Runs of run_agent_cycle under way at once (loop threads and run-once
\* handlers), and markets analysed in all.
MaxCycles == 2
MaxDecisions == 32
Cycles == 1..MaxCycles

\* if len(state.decisions) > 30: state.decisions = state.decisions[-30:]
DecisionsKept == 30
LastOf(list, n) == SubSeq(list, Len(list) - n + 1, Len(list))

NoCycle == [pc |-> "idle", kept |-> <<>>, last |-> ""]

\* AgentState(): decisions = [], and no cycle has started
CycleInit ==
    /\ decisions = <<>>
    /\ completed = 0
    /\ cycle = [t \in Cycles |-> NoCycle]

NoMarket == [seen |-> FALSE, action |-> "", token_ids |-> <<>>,
             executed |-> FALSE, token_id |-> "", placed |-> FALSE]

\* app.py has been imported: AgentState() and the module globals.
AgentInit ==
    /\ running = FALSE
    /\ auto_trade = FALSE
    /\ executor \in BOOLEAN
    /\ threads = [pos \in Positions |-> 0]
    /\ last_start = NoStart
    /\ toggle_called = FALSE
    /\ last_execute = NoExecute
    /\ order_placed = FALSE
    /\ last_market = NoMarket
    /\ CycleInit

\* app.py is not in play.
AgentIdle ==
    /\ running = FALSE
    /\ auto_trade = FALSE
    /\ executor = FALSE
    /\ threads = [pos \in Positions |-> 0]
    /\ last_start = NoStart
    /\ toggle_called = FALSE
    /\ last_execute = NoExecute
    /\ order_placed = FALSE
    /\ last_market = NoMarket
    /\ CycleInit

\* POST /api/agent/start arrives: api_start calls start_agent
ApiStart ==
    /\ Alive < MaxThreads
    /\ threads' = [threads EXCEPT !["start_agent: if state.running"] = @ + 1]
    /\ UNCHANGED <<running, auto_trade, executor, last_start, toggle_called,
                   last_execute, order_placed,
                   last_market>>
    /\ UNCHANGED notAgent

\* if state.running: return False
StartAgentTests ==
    /\ threads["start_agent: if state.running"] > 0
    /\ IF running
       THEN /\ threads' = Leaves("start_agent: if state.running")
            /\ last_start' = [called |-> TRUE, saw_running |-> TRUE,
                              returned |-> FALSE, spawned |-> FALSE]
       ELSE /\ threads' = Moves("start_agent: if state.running",
                                "start_agent: state.running = True")
            /\ last_start' = last_start
    /\ UNCHANGED <<running, auto_trade, executor, toggle_called, last_execute,
                   order_placed,
                   last_market>>
    /\ UNCHANGED notAgent

\* state.running = True; state.thread = Thread(target=agent_loop); start();
\* return True.  The handler ends and the new thread stands at its loop test.
StartAgentSpawns ==
    /\ threads["start_agent: state.running = True"] > 0
    /\ running' = TRUE
    /\ threads' = Moves("start_agent: state.running = True",
                        "agent_loop: while state.running")
    /\ last_start' = [called |-> TRUE, saw_running |-> FALSE,
                      returned |-> TRUE, spawned |-> TRUE]
    /\ UNCHANGED <<auto_trade, executor, toggle_called, last_execute, order_placed,
                   last_market>>
    /\ UNCHANGED notAgent

\* POST /api/agent/stop: stop_agent sets state.running = False
ApiStop ==
    /\ running' = FALSE
    /\ UNCHANGED <<auto_trade, executor, threads, last_start, toggle_called,
                   last_execute, order_placed,
                   last_market>>
    /\ UNCHANGED notAgent

\* A loop that goes on whatever state.running says.
LoopGoesOn_Regardless(state_running) == TRUE

\* while state.running:
LoopGoesOn(state_running) == state_running

\* while state.running: the thread enters a cycle, or leaves the loop and ends
AgentLoopTests ==
    /\ threads["agent_loop: while state.running"] > 0
    /\ threads' = IF LoopGoesOn(running)
                  THEN Moves("agent_loop: while state.running",
                             "agent_loop: run_agent_cycle")
                  ELSE Leaves("agent_loop: while state.running")
    /\ UNCHANGED <<running, auto_trade, executor, last_start, toggle_called,
                   last_execute, order_placed,
                   last_market>>
    /\ UNCHANGED notAgent

\* market.get("token_ids", []): none, only the YES token, both, or an
\* empty string in the YES place.
TokenLists == { <<>>, <<"7132...yes">>, <<"7132...yes", "5211...no">>,
                <<"", "5211...no">> }
\* The YES token read from the second place of the list.
yes_token_Second(token_ids) == IF Len(token_ids) > 1 THEN token_ids[2] ELSE None

\* token_ids[0] if len(token_ids) > 0 else None; token_ids[1] if len(token_ids) > 1 else None
yes_token(token_ids) == IF Len(token_ids) > 0 THEN token_ids[1] ELSE None
no_token(token_ids) == IF Len(token_ids) > 1 THEN token_ids[2] ELSE None

\* action.startswith("BET") and "YES" in action, on the recommendations
\* consensus_analysis returns
StartsWithBET(action) == action \in {"BET YES", "BET NO"}
ContainsYES(action) == action = "BET YES"

\* if token_id: neither None nor the empty string
Truthy(token_id) == token_id # None /\ token_id # ""

\* The auto-trade switch left out of the test.
AutoTradeGate_NoSwitch(enabled, has_executor, action) ==
    has_executor /\ StartsWithBET(action)

\* if state.auto_trade and executor and action.startswith("BET")
AutoTradeGate(enabled, has_executor, action) ==
    enabled /\ has_executor /\ StartsWithBET(action)

\* One market of run_agent_cycle, in a loop thread or in the run-once
\* handler: the consensus gives an action, and behind the auto-trade test
\* executor.execute_signal is called, which may place an order.
RunAgentCycleMarket ==
    \E pos \in CyclePositions, action \in Actions, token_ids \in TokenLists :
        /\ threads[pos] > 0
        /\ LET token_id == IF ContainsYES(action) THEN yes_token(token_ids)
                            ELSE no_token(token_ids)
           IN  IF AutoTradeGate(auto_trade, executor, action) /\ Truthy(token_id)
               THEN /\ last_execute' =
                         [ called |-> TRUE, auto_trade |-> auto_trade,
                           executor |-> executor, action |-> action,
                           yes_token |-> yes_token(token_ids),
                           no_token |-> no_token(token_ids),
                           token_id |-> token_id ]
                    /\ \E placed \in BOOLEAN :
                         /\ order_placed' = (order_placed \/ placed)
                         /\ last_market' =
                              [ seen |-> TRUE, action |-> action,
                                token_ids |-> token_ids, executed |-> TRUE,
                                token_id |-> token_id, placed |-> placed ]
               ELSE /\ UNCHANGED <<last_execute, order_placed>>
                    /\ last_market' =
                         [ seen |-> TRUE, action |-> action,
                           token_ids |-> token_ids, executed |-> FALSE,
                           token_id |-> "", placed |-> FALSE ]
        /\ UNCHANGED <<running, auto_trade, executor, threads, last_start, toggle_called>>
        /\ UNCHANGED notAgent

\* run_agent_cycle returns to agent_loop, which goes to sleep for 6 hours
AgentLoopSleeps ==
    /\ threads["agent_loop: run_agent_cycle"] > 0
    /\ threads' = Moves("agent_loop: run_agent_cycle", "agent_loop: time.sleep")
    /\ UNCHANGED <<running, auto_trade, executor, last_start, toggle_called,
                   last_execute, order_placed,
                   last_market>>
    /\ UNCHANGED notAgent

\* time.sleep returns: back to the loop test
AgentLoopWakes ==
    /\ threads["agent_loop: time.sleep"] > 0
    /\ threads' = Moves("agent_loop: time.sleep", "agent_loop: while state.running")
    /\ UNCHANGED <<running, auto_trade, executor, last_start, toggle_called,
                   last_execute, order_placed,
                   last_market>>
    /\ UNCHANGED notAgent

\* POST /api/agent/run-once: refused while state.running, else the handler
\* runs a cycle itself
ApiRunOnce ==
    /\ Alive < MaxThreads
    /\ ~running
    /\ threads' = [threads EXCEPT !["api_run_once: run_agent_cycle"] = @ + 1]
    /\ UNCHANGED <<running, auto_trade, executor, last_start, toggle_called,
                   last_execute, order_placed,
                   last_market>>
    /\ UNCHANGED notAgent

\* run_agent_cycle returns to api_run_once, which answers
RunOnceReturns ==
    /\ threads["api_run_once: run_agent_cycle"] > 0
    /\ threads' = Leaves("api_run_once: run_agent_cycle")
    /\ UNCHANGED <<running, auto_trade, executor, last_start, toggle_called,
                   last_execute, order_placed,
                   last_market>>
    /\ UNCHANGED notAgent

\* POST /api/agent/auto-trade: "enabled" given as true or false, or left out
ApiToggleAutoTrade ==
    /\ \E data \in {"enabled: true", "enabled: false", "{}"} :
         auto_trade' = IF data = "{}" THEN ~auto_trade ELSE data = "enabled: true"
    /\ toggle_called' = TRUE
    /\ UNCHANGED <<running, executor, threads, last_start, last_execute, order_placed,
                   last_market>>
    /\ UNCHANGED notAgent

AgentNext ==
    \/ ApiStart \/ StartAgentTests \/ StartAgentSpawns \/ ApiStop
    \/ AgentLoopTests \/ RunAgentCycleMarket \/ AgentLoopSleeps \/ AgentLoopWakes
    \/ ApiRunOnce \/ RunOnceReturns \/ ApiToggleAutoTrade

\* run_agent_cycle is entered, by agent_loop or by api_run_once, and comes
\* to its loop over the markets (which may be empty)
CycleStarts(t) ==
    /\ cycle[t].pc = "idle"
    /\ cycle' = [cycle EXCEPT ![t].pc = "market"]
    /\ UNCHANGED <<decisions, completed>>
    /\ UNCHANGED notCycle

\* No market is left: run_agent_cycle returns
CycleEnds(t) ==
    /\ cycle[t].pc = "market"
    /\ cycle' = [cycle EXCEPT ![t] = NoCycle]
    /\ UNCHANGED <<decisions, completed>>
    /\ UNCHANGED notCycle

\* The analysis of a market raises: "Analysis error" is logged, no decision
\* is made, and the loop goes to the next market
MarketRaises(t) ==
    /\ cycle[t].pc = "market"
    /\ cycle' = [cycle EXCEPT ![t].last = "raised"]
    /\ UNCHANGED <<decisions, completed>>
    /\ UNCHANGED notCycle

\* The analysis of a market completes, the trade (if any) included:
\* state.decisions.append(decision)
MarketAnalysed(t) ==
    /\ cycle[t].pc = "market"
    /\ completed < MaxDecisions
    /\ completed' = completed + 1
    /\ decisions' = Append(decisions, completed')
    /\ cycle' = [cycle EXCEPT ![t].pc = "trim", ![t].last = "appended"]
    /\ UNCHANGED notCycle

\* if len(state.decisions) > 30: the slice state.decisions[-30:] is built
TrimTests(t) ==
    /\ cycle[t].pc = "trim"
    /\ cycle' = IF Len(decisions) > DecisionsKept
                THEN [cycle EXCEPT ![t].pc = "assign",
                                   ![t].kept = LastOf(decisions, DecisionsKept)]
                ELSE [cycle EXCEPT ![t].pc = "market"]
    /\ UNCHANGED <<decisions, completed>>
    /\ UNCHANGED notCycle

\* state.decisions = <the slice>
TrimAssigns(t) ==
    /\ cycle[t].pc = "assign"
    /\ decisions' = cycle[t].kept
    /\ cycle' = [cycle EXCEPT ![t].pc = "market", ![t].kept = <<>>]
    /\ UNCHANGED completed
    /\ UNCHANGED notCycle

CycleNext ==
    \E t \in Cycles :
        \/ CycleStarts(t) \/ CycleEnds(t) \/ MarketRaises(t)
        \/ MarketAnalysed(t) \/ TrimTests(t) \/ TrimAssigns(t)

----------------------------------------------------------------------------
(* GCSStorage: the order history kept in orders.json.  Orders are numbered  *)
(* in the order add_order is called with them.                              *)

\* Callers of add_order at once, and orders added in all.
MaxWriters == 2
MaxOrders == 3
Writers == 1..MaxWriters

NoFile == [exists |-> FALSE, orders |-> <<>>]
File(orders) == [exists |-> TRUE, orders |-> orders]
NoCall == [pc |-> "idle", order |-> 0, orders |-> <<>>, result |-> FALSE,
           replaced |-> <<>>]

\* A GCSStorage whose bucket holds no orders.json yet; add_order not called.
StorageInit ==
    /\ gcs_file = NoFile
    /\ gcs_added = 0
    /\ gcs_calls = [w \in Writers |-> NoCall]

\* What _read_json returns for orders.json, seen through data.get('orders', []):
\* the orders of the file, or [] where the file does not exist, or where
\* the client is not initialized, the download or json.loads raises ({}).
ReadOrders(file) == {file.orders, <<>>}

\* add_order(order) is called
AddOrderCalled(w) ==
    /\ gcs_calls[w].pc \in {"idle", "done"}
    /\ gcs_added < MaxOrders
    /\ gcs_added' = gcs_added + 1
    /\ gcs_calls' = [gcs_calls EXCEPT ![w] =
                        [NoCall EXCEPT !.pc = "load", !.order = gcs_added']]
    /\ UNCHANGED gcs_file
    /\ UNCHANGED notStorage

\* orders = self.load_orders(); orders.append(order)
LoadOrders(w) ==
    /\ gcs_calls[w].pc = "load"
    /\ \E read \in ReadOrders(gcs_file) :
         gcs_calls' = [gcs_calls EXCEPT ![w].pc = "save",
                                        ![w].orders = Append(read, gcs_calls[w].order)]
    /\ UNCHANGED <<gcs_file, gcs_added>>
    /\ UNCHANGED notStorage

\* return self.save_orders(orders): _write_json uploads the list and returns
\* True, or fails (no client, upload raises) and returns False
SaveOrders(w) ==
    /\ gcs_calls[w].pc = "save"
    /\ \E uploaded \in BOOLEAN :
         /\ gcs_file' = IF uploaded THEN File(gcs_calls[w].orders) ELSE gcs_file
         /\ gcs_calls' = [gcs_calls EXCEPT ![w].pc = "done",
                                           ![w].result = uploaded,
                                           ![w].replaced = gcs_file.orders]
    /\ UNCHANGED gcs_added
    /\ UNCHANGED notStorage

StorageNext ==
    \E w \in Writers : AddOrderCalled(w) \/ LoadOrders(w) \/ SaveOrders(w)

----------------------------------------------------------------------------
(* Specifications: one per component, the others at rest *)

\* consensus_analysis, called again and again
Init == ConsInit /\ ExecIdle /\ KellyIdle /\ SizeIdle /\ AgentIdle /\ StorageInit
Spec == Init /\ [][ConsNext]_vars

\* consensus_analysis called again and again, with the record of the calls
SpecRecorded == Init /\ [][RecordedNext]_vars

\* consensus_analysis called again and again, with the replies it heard
SpecHeard == Init /\ [][HeardNext]_vars

\* execute_signal, called again and again on one TradeExecutor
InitExec == ExecInit /\ ConsIdle /\ KellyIdle /\ SizeIdle /\ AgentIdle /\ StorageInit
SpecExec == InitExec /\ [][ExecNext]_vars

\* place_market_order, called again and again on one TradeExecutor
InitPlace == PlaceInit /\ ConsIdle /\ KellyIdle /\ SizeIdle /\ AgentIdle /\ StorageInit

\* get_orderbook, get_open_orders, get_positions and place_market_order,
\* called in any order on one TradeExecutor
InitClient == ClientInit /\ ConsIdle /\ KellyIdle /\ SizeIdle /\ AgentIdle /\ StorageInit
SpecClient == InitClient /\ [][ClientNext]_vars

\* calculate_position_size, called again and again
InitSize == SizeInit /\ ConsIdle /\ ExecIdle /\ KellyIdle /\ AgentIdle /\ StorageInit
SpecSize == InitSize /\ [][SizeNext]_vars
SpecPlace == InitPlace /\ [][PlaceNext]_vars

\* kelly_bet_size, called again and again on one KellyCriterion
InitKelly == KellyInit /\ ConsIdle /\ ExecIdle /\ SizeIdle /\ AgentIdle /\ StorageInit
SpecKelly == InitKelly /\ [][KellyNext]_vars

\* app.py: requests, loop threads and cycles in every interleaving
InitAgent == AgentInit /\ ConsIdle /\ ExecIdle /\ KellyIdle /\ SizeIdle /\ StorageInit
SpecAgent == InitAgent /\ [][AgentNext]_vars

\* run_agent_cycle, run by the loop threads and handlers that are in it at
\* once, writing state.decisions
InitCycle == AgentInit /\ ConsIdle /\ ExecIdle /\ KellyIdle /\ SizeIdle /\ StorageInit
SpecCycle == InitCycle /\ [][CycleNext]_vars

\* GCSStorage.add_order, called by callers that may overlap
InitStorage == StorageInit /\ ConsIdle /\ ExecIdle /\ KellyIdle /\ SizeIdle /\ AgentIdle
SpecStorage == InitStorage /\ [][StorageNext]_vars

\* The same, with the loop threads scheduled: a loop test is made, a cycle
\* (at most 10 markets) returns, and time.sleep(6 * 60 * 60) ends.
SpecAgentFair ==
    /\ SpecAgent
    /\ WF_vars(AgentLoopTests)
    /\ WF_vars(AgentLoopSleeps)
    /\ WF_vars(AgentLoopWakes)

----------------------------------------------------------------------------
(* Properties of consensus_analysis *)

Returned == ca_pc = "done"
Has(d, k) == k \in DOMAIN d
Get(d, k, default) == IF k \in DOMAIN d THEN d[k] ELSE default

\* C1: for a non-empty set of successful estimates the returned pair is
\* BULLISH/BET YES when yes_votes >= 2, else BEARISH/BET NO when
\* no_votes >= 2, else MIXED/SKIP, and nothing else.
C1_DirectionRule ==
    (Returned /\ results # <<>>) =>
        <<analysis.consensus, analysis.recommendation>> =
            IF analysis.yes_votes >= 2 THEN <<"BULLISH", "BET YES">>
            ELSE IF analysis.no_votes >= 2 THEN <<"BEARISH", "BET NO">>
            ELSE <<"MIXED", "SKIP">>

\* Two YES votes against one NO vote: BET YES.
C1_Witness ==
    /\ Returned
    /\ Len(results) = 3
    /\ analysis.yes_votes = 2
    /\ analysis.no_votes = 1
    /\ analysis.recommendation = "BET YES"

C3_NoTieTrades ==
    Returned =>
        LET y == Get(analysis, "yes_votes", 0)
            n == Get(analysis, "no_votes", 0)
        IN  /\ y = n => analysis.recommendation = "SKIP"
            /\ analysis.recommendation = "BET YES" => y > n
            /\ analysis.recommendation = "BET NO" => n > y
            /\ analysis.recommendation \in {"BET YES", "BET NO", "SKIP"}

\* The 1-1-1 split is returned as SKIP.
C3_Witness ==
    /\ Returned
    /\ Len(results) = 3
    /\ analysis.yes_votes = 1
    /\ analysis.no_votes = 1
    /\ analysis.hold_votes = 1
    /\ analysis.recommendation = "SKIP"

\* C4: when every model call fails, consensus_analysis raises nothing and
\* returns ERROR/SKIP with one error per failed model and without
\* avg_probability, avg_edge or vote counts.
C4_AllModelsFailed ==
    /\ ca_pc # "raised"
    /\ (Returned /\ results = <<>>) =>
        /\ analysis.consensus = "ERROR"
        /\ analysis.recommendation = "SKIP"
        /\ DOMAIN analysis = {"consensus", "recommendation", "error", "errors"}
        /\ Len(analysis.errors) = NumModels
        /\ \A k \in 1..NumModels : analysis.errors[k].model = CONSENSUS_MODELS[k]

\* All three calls failed and the call has returned.
C4_Witness ==
    /\ Returned
    /\ results = <<>>
    /\ Len(errors) = 3
    /\ analysis.consensus = "ERROR"

\* Where model k of CONSENSUS_MODELS ended up.
InResults(k) == \E i \in 1..Len(results) : results[i].model = ShortName(CONSENSUS_MODELS[k])
InErrors(k) == \E j \in 1..Len(errors) : errors[j].model = CONSENSUS_MODELS[k]
PosOf(name) == CHOOSE k \in 1..NumModels :
                  name \in {CONSENSUS_MODELS[k], ShortName(CONSENSUS_MODELS[k])}
InModelOrder(seq) ==
    \A i, j \in 1..Len(seq) : i < j => PosOf(seq[i].model) < PosOf(seq[j].model)

\* C5: a failing chat call is recorded in errors and never leaves
\* consensus_analysis; the other models are still queried, in
\* CONSENSUS_MODELS order; the failed model is in no vote count; after the
\* loop len(model_results) + len(errors) = 3.
C5_FailureIsolated ==
    /\ ca_pc # "raised"
    /\ Len(results) + Len(errors) = ca_model - 1
    /\ \A k \in 1..NumModels :
         /\ k < ca_model => (InResults(k) /\ ~InErrors(k)) \/ (InErrors(k) /\ ~InResults(k))
         /\ k >= ca_model => ~InResults(k) /\ ~InErrors(k)
    /\ InModelOrder(results)
    /\ InModelOrder(errors)
    /\ Returned =>
         /\ Len(results) + Len(errors) = NumModels
         /\ results # <<>> =>
              /\ analysis.model_results = results
              /\ analysis.yes_votes + analysis.no_votes + analysis.hold_votes
                   = NumModels - Len(errors)

\* The first model failed, the two after it were queried and counted.
C5_Witness ==
    /\ Returned
    /\ Len(errors) = 1
    /\ errors[1].model = CONSENSUS_MODELS[1]
    /\ Len(results) = 2
    /\ results[1].model = ShortName(CONSENSUS_MODELS[2])
    /\ results[2].model = ShortName(CONSENSUS_MODELS[3])
    /\ analysis.models_used = 2

\* C6: in a non-error result avg_probability, avg_confidence and avg_edge are
\* the arithmetic means over the successful estimates only (avg_edge also
\* equals avg_probability - market_probability).
C6_MeansOverSuccesses ==
    (Returned /\ results # <<>>) =>
        LET mr == analysis.model_results
            n == analysis.models_used
        IN  /\ n = Len(mr)
            /\ analysis.avg_probability * n = SumOver(mr, "probability")
            /\ analysis.avg_confidence * n = SumOver(mr, "confidence")
            /\ analysis.avg_edge * n = SumOver(mr, "edge")
            /\ analysis.avg_edge = analysis.avg_probability - analysis.market_probability

\* One model failed and the other two gave different probabilities.
C6_Witness ==
    /\ Returned
    /\ Len(errors) = 1
    /\ Len(results) = 2
    /\ results[1].probability # results[2].probability
    /\ analysis.avg_probability * 2 = results[1].probability + results[2].probability

\* C7: every estimate in model_results has probability within [0,1] and
\* confidence within [1,10], whatever the reply text holds.
C7_EstimatesInRange ==
    (Returned /\ results # <<>>) =>
        \A i \in 1..Len(analysis.model_results) :
            LET r == analysis.model_results[i] IN
            /\ 0 <= r.probability /\ r.probability <= Unit
            /\ ConfUnit <= r.confidence /\ r.confidence <= 10 * ConfUnit

EstimatesValid ==
    \A i \in 1..Len(results) :
        0 <= results[i].probability /\ results[i].probability <= Unit

\* C20: for every combination of model estimates (each a probability within
\* [0,1]), a BET YES recommendation comes with avg_edge > 0 and a BET NO
\* recommendation with avg_edge < 0.
C20_DirectionAgreesWithEdge ==
    (Returned /\ results # <<>> /\ EstimatesValid) =>
        /\ analysis.recommendation = "BET YES" => analysis.avg_edge > 0
        /\ analysis.recommendation = "BET NO" => analysis.avg_edge < 0

\* The replies behind the entries of results, in the same order.
Succeeded(h) == ~h.failed
HeardReplies == SelectSeq(ca_heard, Succeeded)
NotParsed(line) == line.kind # "Number"
Defaulted == {k \in 1..Len(HeardReplies) : NotParsed(HeardReplies[k].reply.probability_line)}

\* C29: a reply without a parsable PROBABILITY line counts as a successful
\* estimate whose probability is the current market odds: its edge is 0 and
\* its vote is HOLD, never YES or NO.  A reply without a parsable CONFIDENCE
\* line gets confidence 5.  Such a reply is among models_used and in the
\* averages.
C29_UnparsableReplyDefaults ==
    /\ Len(HeardReplies) = Len(results)
    /\ \A k \in 1..Len(results) :
         LET reply == HeardReplies[k].reply
             r == results[k]
         IN  /\ NotParsed(reply.probability_line) =>
                  /\ r.probability = current_odds
                  /\ r.edge = 0
                  /\ ~IsYesVote(r) /\ ~IsNoVote(r)
             /\ NotParsed(reply.confidence_line) => r.confidence = 5 * ConfUnit
    /\ (ca_pc = "done" /\ results # <<>>) =>
         /\ analysis.models_used = Len(HeardReplies)
         /\ analysis.model_results = results
         /\ analysis.hold_votes >= Cardinality(Defaulted)
         /\ analysis.yes_votes + analysis.no_votes <= Len(results) - Cardinality(Defaulted)
         /\ analysis.avg_probability = SumOver(results, "probability") \div Len(results)
         /\ analysis.avg_confidence = SumOver(results, "confidence") \div Len(results)

\* Two models say 56% against odds of 50%, the third replies without either
\* line: it is the one HOLD vote of a BET YES made by three models.
C29_Witness ==
    /\ ca_pc = "done"
    /\ current_odds = (50 * Unit) \div 100
    /\ Len(ca_heard) = 3
    /\ ca_heard[1] = Answer([probability_line |-> Number(56), confidence_line |-> Number(9)])
    /\ ca_heard[2] = Answer([probability_line |-> Unparsable, confidence_line |-> NoLine])
    /\ ca_heard[3] = Answer([probability_line |-> Number(56), confidence_line |-> Number(9)])
    /\ results[2].probability = current_odds
    /\ results[2].confidence = 5 * ConfUnit
    /\ analysis.models_used = 3
    /\ analysis.hold_votes = 1
    /\ analysis.recommendation = "BET YES"

----------------------------------------------------------------------------
(* Properties of TradeExecutor *)

Validated == validation # NoValue
Rejected == IF Validated THEN ~validation.should_trade ELSE FALSE
Accepted == IF Validated THEN validation.should_trade ELSE FALSE

GateHolds ==
    /\ calls # <<>> => /\ calls[1] = "validate_trade_signal"
                       /\ Validated
                       /\ validation = validate_trade_signal(signal.action, signal.edge,
                                                             signal.confidence, signal.consensus)
    /\ \A i \in 1..Len(calls) :
         calls[i] \in {"calculate_position_size", "place_market_order",
                       "_ensure_initialized", "create_and_post_order"}
            => i > 1 /\ Accepted
    /\ size # NoSize => Accepted
    /\ posted # <<>> => Accepted
    /\ Rejected =>
         /\ ex_pc = "done"
         /\ trade_result = [status |-> "skipped", reason |-> validation.reason]
         /\ calls = <<"validate_trade_signal">>
         /\ size = NoSize
         /\ posted = <<>>

\* C9: in every execution of execute_signal, calculate_position_size and
\* place_market_order run only after validate_trade_signal returned true for
\* that signal; a rejection returns {status: skipped, reason} without sizing,
\* without initialising the exchange client and without posting an order.
C9_ValidatorGates ==
    [][ /\ GateHolds'
        /\ Rejected' => UNCHANGED <<initialized, client, api_creds>> ]_vars

\* An accepted signal was sized, the client initialised and an order posted,
\* in that order.
C9_Witness ==
    /\ ex_pc = "done"
    /\ Accepted
    /\ calls = << "validate_trade_signal", "calculate_position_size",
                  "place_market_order", "_ensure_initialized",
                  "create_and_post_order" >>
    /\ posted # <<>>
    /\ trade_result.status = "submitted"

\* C15: for every edge, every confidence in [1,10] and every bankroll >= 0,
\* calculate_position_size returns bankroll x |edge| x (confidence/10) x 0.5
\* clamped into [1.00, 10.00] and rounded to the cent, so the result is
\* always between 1.00 and 10.00.
C15_ModeBSizing ==
    ps_pc = "done" =>
        LET \* the unclamped size in cents is raw / scale
            raw == ps_args.bankroll * Abs(ps_args.edge) * ps_args.confidence
            scale == Unit * (10 * ConfUnit) * 2
        IN  /\ 100 <= ps_result /\ ps_result <= 1000
            /\ raw <= 100 * scale => ps_result = 100
            /\ raw >= 1000 * scale => ps_result = 1000
            /\ (100 * scale < raw /\ raw < 1000 * scale) =>
                   2 * Abs(ps_result * scale - raw) <= scale

\* Edge -0.10, confidence 8 and bankroll 100 give 4.00.
C15_Witness ==
    /\ ps_pc = "done"
    /\ ps_args = [edge |-> -(Unit \div 10), confidence |-> 8 * ConfUnit,
                  bankroll |-> 100 * 100]
    /\ ps_result = 4 * 100

\* The USDC value of a posted order, price x size, against a limit in cents.
ValueAtMost(order, limit) == order.price * order.size.num <= limit * order.size.den
ValueIs(order, cents) == order.price * order.size.num = cents * order.size.den

\* C18: every order place_market_order hands to create_and_post_order has a
\* USDC value price x size of at most MAX_BET_SIZE = 10, for every requested
\* amount and price, and a requested amount above 10 is posted as exactly 10.
C18_PerTradeCap ==
    \A i \in 1..Len(posted) :
        /\ ValueAtMost(posted[i], 100 * 10)
        /\ place_args.amount_usdc > 100 * 10 => ValueIs(posted[i], 100 * 10)

\* 25 dollars were requested at a given price of 0.37 and an order was posted.
C18_Witness ==
    /\ ex_pc = "done"
    /\ place_args.amount_usdc = 25 * 100
    /\ place_args.price = Price(37)
    /\ Len(posted) = 1
    /\ posted[1].size = [num |-> 10 * 100, den |-> 37]
    /\ order_id # None

\* C21: the order sized from the consensus never exceeds the available
\* capital: the size calculate_position_size returns, which execute_signal
\* hands to place_market_order as the amount, is at most the bankroll, for
\* every bankroll from 0 up.
C21_OrderWithinBankroll ==
    (ex_pc \in {"place", "ensure", "price", "return", "done"} /\ size # NoSize)
        => /\ size <= signal.bankroll
           /\ place_args.amount_usdc <= signal.bankroll

\* create_and_post_order returned a non-empty response for the order: the
\* exchange took it ("Order submitted to CLOB", "Order is now in orderbook").
OrderSubmitted(order) == order.response \notin {"exception", "empty"}
AnOrderWasSubmitted == \E i \in 1..Len(posted) : OrderSubmitted(posted[i])

\* C23: the result of execute_signal tells what happened: its status is
\* skipped, submitted or failed; it is submitted, with the order id, the
\* action and the computed size, only if an order was posted and accepted,
\* and failed only if no order was posted, whatever create_and_post_order
\* answered (an exception, an empty response, a response with the id under
\* orderID, order_id or id, a non-empty response without any id field).
C23_ResultTellsWhatHappened ==
    ex_pc = "done" =>
        /\ trade_result.status \in {"skipped", "submitted", "failed"}
        /\ trade_result.status = "submitted" =>
             /\ AnOrderWasSubmitted
             /\ trade_result.order_id = order_id /\ order_id # None
             /\ trade_result.action = signal.action
             /\ trade_result.size = size /\ size # NoSize
        /\ trade_result.status = "failed" => ~AnOrderWasSubmitted

\* The calls a method makes on the exchange through the client.
ExchangeCalls == {"get_order_book", "get_orders", "get_balances", "create_and_post_order"}
CallsMade == {calls[i] : i \in 1..Len(calls)}
\* This call has run _ensure_initialized, and it failed.
InitialisationFailed == "_ensure_initialized" \in CallsMade /\ ~initialized

\* _initialized is set only with the client and the credentials in place.
InitializedMeansReady == initialized => (client # None /\ api_creds # None)

\* While initialisation fails the method returns None or [] and calls
\* nothing on the exchange.
NothingWithoutClient ==
    (ex_pc \in {"return", "done"} /\ InitialisationFailed) =>
        /\ CallsMade \cap ExchangeCalls = {}
        /\ posted = <<>>
        /\ operation \in Reads /\ ex_pc = "done" => returned = EmptyResult(operation)
        /\ operation = "place_market_order" => order_id = None

\* Once initialized, _ensure_initialized returns True and builds nothing;
\* a failed attempt leaves _initialized false, for the next call to retry.
EnsureStep ==
    /\ initialized =>
         /\ initialized' /\ client' = client /\ api_creds' = api_creds
         /\ ex_pc = "ensure" => ex_pc' = "price"
    /\ (ex_pc = "ensure" /\ ex_pc' # "price") => ~initialized'

----------------------------------------------------------------------------
(* Properties of KellyCriterion *)

KellyReturned == k_pc = "done" /\ Has(kelly_result, "should_bet")
KellyEdge == kelly_args.estimated_prob - kelly_args.market_prob

\* C10: whenever |estimated_prob - market_prob| < min_edge_pct,
\* kelly_bet_size returns should_bet = false with bet_size 0, side None and
\* a reason; it returns should_bet = true only when |edge| >= min_edge_pct.
C10_MinEdgeRejection ==
    k_pc = "done" =>
        /\ Abs(KellyEdge) < kelly.min_edge_pct =>
             /\ KellyReturned
             /\ kelly_result.should_bet = FALSE
             /\ kelly_result.bet_size = 0
             /\ kelly_result.side = None
             /\ Has(kelly_result, "reason")
        /\ (KellyReturned /\ kelly_result.should_bet) =>
             Abs(KellyEdge) >= kelly.min_edge_pct

\* 0.52 against a market at 0.50 with the minimum edge 0.15 has been rejected.
C10_Witness ==
    /\ k_pc = "done"
    /\ kelly_args.estimated_prob = (52 * Unit) \div 100
    /\ kelly_args.market_prob = (50 * Unit) \div 100
    /\ kelly.min_edge_pct = (15 * Unit) \div 100
    /\ kelly_result.should_bet = FALSE
    /\ kelly_result.bet_size = 0

MarketInside == 0 < kelly_args.market_prob /\ kelly_args.market_prob < Unit
EstimateInside == 0 < kelly_args.estimated_prob /\ kelly_args.estimated_prob < Unit
SufficientEdge == Abs(KellyEdge) >= kelly.min_edge_pct

\* The side is YES exactly above the market and NO exactly below it, the raw
\* Kelly fraction is positive and a bet is made.
BetsOnTheSideOfTheEdge ==
    /\ KellyReturned
    /\ kelly_result.side = "YES" <=> kelly_args.estimated_prob > kelly_args.market_prob
    /\ kelly_result.side = "NO" <=> kelly_args.estimated_prob < kelly_args.market_prob
    /\ Has(kelly_result, "kelly_raw") /\ RLt(RInt(0), kelly_result.kelly_raw)
    /\ kelly_result.should_bet = TRUE

\* C11 as stated: for a market probability strictly between 0 and 1, an
\* estimate with |edge| >= min_edge_pct and a bankroll > 0, kelly_bet_size
\* returns side YES exactly when the estimate is above the market and NO
\* exactly when it is below, with a positive raw Kelly fraction and
\* should_bet true.
C11_SideSelection_AsStated ==
    (k_pc = "done" /\ MarketInside /\ SufficientEdge /\ kelly.bankroll > 0) =>
        BetsOnTheSideOfTheEdge

\* C11, amended: the same conclusion for a market probability strictly
\* between 0 and 1, a non-zero edge with |edge| >= min_edge_pct, a
\* bankroll > 0, a kelly_fraction > 0 and a max_bet_pct > 0.
C11_SideSelection ==
    ( /\ k_pc = "done" /\ MarketInside /\ SufficientEdge /\ kelly.bankroll > 0
      /\ KellyEdge # 0
      /\ RLt(RInt(0), kelly.kelly_fraction)
      /\ kelly.max_bet_pct > 0 ) =>
        BetsOnTheSideOfTheEdge

\* 0.35 against a market at 0.50 with quarter Kelly: a bet on NO.
C11_Witness ==
    /\ k_pc = "done"
    /\ kelly_args.estimated_prob = (35 * Unit) \div 100
    /\ kelly_args.market_prob = (50 * Unit) \div 100
    /\ kelly.min_edge_pct = (15 * Unit) \div 100
    /\ kelly.kelly_fraction = R(1, 4)
    /\ kelly_result.side = "NO"
    /\ kelly_result.should_bet = TRUE
    /\ kelly_result.bet_size > 0

\* C12: for estimated and market probabilities strictly between 0 and 1,
\* every kelly_fraction and every bankroll >= 0, kelly_bet_size returns a
\* bet_size that is never negative and never above max_bet_pct x bankroll
\* rounded to the cent.
C12_CapAndFloor ==
    (k_pc = "done" /\ EstimateInside /\ MarketInside) =>
        /\ KellyReturned
        /\ kelly_result.bet_size >= 0
        /\ kelly_result.bet_size <=
               RoundHalfEven(kelly.max_bet_pct * kelly.bankroll, Unit)

\* 0.70 against 0.50 with bankroll 100, quarter Kelly, cap 0.05 and minimum
\* edge 0.15: YES, sized at the cap of 5 dollars.
C12_Witness ==
    /\ k_pc = "done"
    /\ kelly_args.estimated_prob = (70 * Unit) \div 100
    /\ kelly_args.market_prob = (50 * Unit) \div 100
    /\ kelly = [ bankroll |-> 100 * 100, max_bet_pct |-> (5 * Unit) \div 100,
                 min_edge_pct |-> (15 * Unit) \div 100, kelly_fraction |-> R(1, 4) ]
    /\ kelly_result.side = "YES"
    /\ kelly_result.bet_size > 0
    /\ kelly_result.bet_size <= 5 * 100

\* C13: for probabilities in [0,1], the market at exactly 0 or 1 included,
\* kelly_bet_size raises nothing, and at a market of 0 or 1 it returns
\* should_bet false with bet_size 0.
C13_DegenerateOddsGuarded ==
    k_pc = "done" =>
        /\ KellyReturned
        /\ kelly_args.market_prob \in {0, Unit} =>
             kelly_result.should_bet = FALSE /\ kelly_result.bet_size = 0

\* C14: with a bankroll > 0, however small, should_bet = true implies that
\* the cent-rounded bet_size is > 0 and the side is YES or NO.
C14_ShouldBetMeansPositiveSize ==
    (KellyReturned /\ kelly.bankroll > 0 /\ kelly_result.should_bet) =>
        /\ kelly_result.bet_size > 0
        /\ kelly_result.side \in {"YES", "NO"}

\* C22: KellyCriterion sizes against the configuration it was given, zeros
\* included: built with bankroll = 0, as calculate_bet(est, mkt, bankroll=0)
\* builds it, it returns bet_size 0 and should_bet false for every input;
\* and a max_bet_pct or min_edge_pct of 0 given to the constructor is the
\* one in use, not the default of the environment.
C22_ZeroConfigurationKept ==
    /\ (KellyReturned /\ kelly_given.bankroll = Some(0)) =>
           /\ kelly_result.bet_size = 0
           /\ ~kelly_result.should_bet
    /\ k_pc # "idle" =>
           /\ kelly_given.bankroll = Some(0) => kelly.bankroll = 0
           /\ kelly_given.max_bet_pct = Some(0) => kelly.max_bet_pct = 0
           /\ kelly_given.min_edge_pct = Some(0) => kelly.min_edge_pct = 0

----------------------------------------------------------------------------
(* Properties of app.py *)

LoopThreads ==
    Total(threads, { "agent_loop: while state.running",
                     "agent_loop: run_agent_cycle", "agent_loop: time.sleep" })

\* C16: in every interleaving of start and stop requests at most one
\* agent_loop thread is alive and running cycles, and a start_agent that
\* finds the agent running returns False and spawns nothing.
C16_SingleLoop ==
    /\ running => LoopThreads <= 1
    /\ threads["agent_loop: run_agent_cycle"] <= 1
    /\ last_start.saw_running => (~last_start.returned /\ ~last_start.spawned)

\* C19: execute_signal is called by a cycle only with state.auto_trade true,
\* an executor, an action BET YES or BET NO and a token for that side; and
\* as long as the auto-trade endpoint was never requested, state.auto_trade
\* is false and no call was made and no order placed.
C19_AutoTradeGating ==
    /\ last_execute.called =>
         /\ last_execute.auto_trade /\ last_execute.executor
         /\ last_execute.action \in {"BET YES", "BET NO"}
         /\ last_execute.token_id \notin {"", None}
         /\ last_execute.token_id =
                IF last_execute.action = "BET YES" THEN last_execute.yes_token
                ELSE last_execute.no_token
    /\ ~toggle_called =>
         (~auto_trade /\ ~last_execute.called /\ ~order_placed)

\* With auto-trade switched on, a cycle has called execute_signal for BET NO
\* on the NO token and an order was placed.
C19_Witness ==
    /\ toggle_called /\ auto_trade /\ executor
    /\ last_execute.called
    /\ last_execute.action = "BET NO"
    /\ last_execute.token_id = "5211...no"
    /\ order_placed

\* The token of the side `action` bets on is not in the list, or is empty.
SideTokenMissing(action, token_ids) ==
    \/ action = "BET YES" /\ (Len(token_ids) < 1 \/ token_ids[1] = "")
    \/ action = "BET NO" /\ (Len(token_ids) < 2 \/ token_ids[2] = "")

\* C24: run_agent_cycle maps the side to the token: a BET YES order goes to
\* the market's first token id, a BET NO order to its second, never the
\* other way round; and when the token of the recommended side is missing
\* no order is placed for that market.
C24_SideToToken ==
    last_market.seen =>
        /\ last_market.placed => last_market.executed
        /\ last_market.executed =>
             /\ last_market.action \in {"BET YES", "BET NO"}
             /\ last_market.action = "BET YES" =>
                  /\ Len(last_market.token_ids) >= 1
                  /\ last_market.token_id = last_market.token_ids[1]
                  /\ Len(last_market.token_ids) >= 2 =>
                       last_market.token_id # last_market.token_ids[2]
             /\ last_market.action = "BET NO" =>
                  /\ Len(last_market.token_ids) >= 2
                  /\ last_market.token_id = last_market.token_ids[2]
                  /\ last_market.token_id # last_market.token_ids[1]
        /\ SideTokenMissing(last_market.action, last_market.token_ids) =>
             ~last_market.executed /\ ~last_market.placed

\* A BET NO order placed on the second token of a market with both tokens.
C24_Witness ==
    /\ last_market.seen
    /\ last_market.action = "BET NO"
    /\ last_market.token_ids = <<"7132...yes", "5211...no">>
    /\ last_market.executed
    /\ last_market.placed
    /\ last_market.token_id = "5211...no"

\* C28: a manual cycle and a background cycle never run at the same time:
\* run-once is refused while the agent runs, so no cycle of api_run_once
\* executes while a cycle of agent_loop does, in every interleaving of
\* start, stop and run-once requests.
C28_ManualAndLoopCyclesExclusive ==
    ~(/\ threads["api_run_once: run_agent_cycle"] > 0
      /\ threads["agent_loop: run_agent_cycle"] > 0)

\* stop_agent was the last word: state.running is False and no start_agent
\* is under way.
StartsUnderWay ==
    threads["start_agent: if state.running"] + threads["start_agent: state.running = True"]
Stopped == ~running /\ StartsUnderWay = 0

\* With state.running False no loop thread enters a cycle, and the cycles
\* in progress only end by returning to the loop, which goes to sleep.
NoNewCycleOnceStopped ==
    ~running =>
        /\ threads'["agent_loop: run_agent_cycle"] <= threads["agent_loop: run_agent_cycle"]
        /\ threads'["agent_loop: run_agent_cycle"] < threads["agent_loop: run_agent_cycle"]
             => threads'["agent_loop: time.sleep"] = threads["agent_loop: time.sleep"] + 1

\* C27: after stop_agent, and as long as start_agent is not called again,
\* the loop starts no new cycle, a cycle in progress runs to its end, and
\* the loop thread exits once its sleep has ended.
C27_StopEndsTheLoop ==
    /\ [][NoNewCycleOnceStopped]_vars
    /\ Stopped ~> (LoopThreads = 0 \/ ~Stopped)

\* A loop thread was spawned, the agent was stopped, and the thread is gone.
C27_Witness ==
    /\ last_start.spawned
    /\ Stopped
    /\ LoopThreads = 0
    /\ Alive = 0

\* The n most recent of the decisions made so far, oldest first.
MostRecent(list, n) ==
    /\ Len(list) = n
    /\ \A i \in 1..n : list[i] = completed - n + i
\* Every market gone through is finished: no run stands between its append
\* and the end of the trimming.
MarketsFinished == \A t \in Cycles : cycle[t].pc \in {"idle", "market"}

\* C25: after each market state.decisions holds at most 30 entries, the
\* most recently appended ones in the order they were made, after any
\* number of cycles; and each market whose analysis completes without
\* exception has appended exactly one decision.
C25_LastThirtyDecisions ==
    MarketsFinished =>
        /\ Len(decisions) <= DecisionsKept
        /\ MostRecent(decisions, IF completed < DecisionsKept THEN completed
                                 ELSE DecisionsKept)

----------------------------------------------------------------------------
(* Properties of GCSStorage *)

\* C26: add_order only appends: whenever it returns True the stored list is
\* the list stored immediately before with the new order at its end;
\* nothing is lost or reordered, also when the read of the existing file
\* fails or two calls of add_order overlap.
C26_AddOrderAppends ==
    \A w \in Writers :
        (gcs_calls[w].pc = "done" /\ gcs_calls[w].result) =>
            gcs_calls[w].orders = Append(gcs_calls[w].replaced, gcs_calls[w].order)

====
